---------------------------- MODULE Spec2Model ----------------------------
(* A model of the Real Estate Agent API (src/main.py, src/schemas.py):     *)
(* the property / inquiry CRUD handlers over a document store.             *)
(*                                                                         *)
(* Values.  A JSON / BSON / Python value is a tagged record, so that any   *)
(* two values can be compared: absent (a key that is not there), null      *)
(* (None), num (a rational n/d, so that 3.5 is 7/2), str, bool, list,      *)
(* date (a clock reading) and oid (an ObjectId).  A document and a request *)
(* body are functions from field names to such values.                     *)
(*                                                                         *)
(* Time.  datetime.now() is the variable clock; every request that reads   *)
(* the time is served at a strictly later instant than the one before it,  *)
(* and the reads within one request return the same instant.               *)
EXTENDS Integers, Sequences, FiniteSets, TLC

VARIABLES
    dbConfigured,   \* database.db is not None
    property,       \* db["property"]: the documents in natural (insertion) order
    inquiry,        \* db["inquiry"]: the documents in natural (insertion) order
    clock,          \* the last instant datetime.now(timezone.utc) returned
    nextId,         \* the number of the next ObjectId the store generates
    request,        \* the last request handled
    response,       \* the response to it
    history,        \* which requests have been handled since start (see HistoryAfter)
    workers         \* list_properties requests in flight (concurrent handling)

vars == <<dbConfigured, property, inquiry, clock, nextId, request, response,
          history, workers>>

---------------------------------------------------------------------------
(* Bounds of the model *)

\* the clock stops here: at most MaxClock requests that read the time
MaxClock == 3
\* the store generates at most MaxDocs identifiers
MaxDocs == 6
\* the collections get_stats is tried on hold up to MaxStatProps properties
\* and MaxStatInquiries inquiries
MaxStatProps == 6
MaxStatInquiries == 1
\* the list_properties requests handled concurrently
NumWorkers == 2

---------------------------------------------------------------------------
(* Values *)

Absent == [t |-> "absent"]
None == [t |-> "null"]
Num(n) == [t |-> "num", n |-> n, d |-> 1]
Frac(n, d) == [t |-> "num", n |-> n, d |-> d]
Str(s) == [t |-> "str", v |-> s]
Bool(b) == [t |-> "bool", v |-> b]
List(l) == [t |-> "list", v |-> l]
Date(c) == [t |-> "date", v |-> c]
Oid(n) == [t |-> "oid", v |-> n]

\* str(ObjectId): the 24 hexadecimal digits of the n-th generated identifier
HexTable ==
    << "650000000000000000000001", "650000000000000000000002",
       "650000000000000000000003", "650000000000000000000004",
       "650000000000000000000005", "650000000000000000000006",
       "650000000000000000000007", "650000000000000000000008",
       "650000000000000000000009", "65000000000000000000000a",
       "65000000000000000000000b", "65000000000000000000000c" >>

ObjectIdStr(oid) ==
    IF oid.v = 0 THEN "ffffffffffffffffffffffff" ELSE HexTable[oid.v]

\* ObjectId(s) raises unless s is 24 hexadecimal digits
ObjectIdValid(s) ==
    s = "ffffffffffffffffffffffff" \/ \E n \in 1..Len(HexTable) : HexTable[n] = s

ObjectId(s) ==
    IF s = "ffffffffffffffffffffffff" THEN Oid(0)
    ELSE Oid(CHOOSE n \in 1..Len(HexTable) : HexTable[n] = s)

\* the identifier strings requests are made with: those of the first two
\* documents the store inserts, a well-formed identifier the store never
\* generates, and a malformed string
IdStrings ==
    {HexTable[1], HexTable[2], "ffffffffffffffffffffffff", "not-an-object-id"}

---------------------------------------------------------------------------
(* Schemas (pydantic models) *)

FieldInfo(type, nullable, default, ge0) ==
    [type |-> type, nullable |-> nullable, default |-> default, ge0 |-> ge0]

\* Field(...) : required
Required == Absent

Property ==
    [ title       |-> FieldInfo("str", FALSE, Required, FALSE),
      location    |-> FieldInfo("str", FALSE, Required, FALSE),
      price_usd   |-> FieldInfo("float", FALSE, Required, TRUE),
      beds        |-> FieldInfo("int", TRUE, None, TRUE),
      baths       |-> FieldInfo("float", TRUE, None, TRUE),
      area_m2     |-> FieldInfo("float", TRUE, None, TRUE),
      type        |-> FieldInfo("str", TRUE, None, FALSE),
      images      |-> FieldInfo("list", FALSE, List(<<>>), FALSE),
      featured    |-> FieldInfo("bool", FALSE, Bool(FALSE), FALSE),
      description |-> FieldInfo("str", TRUE, None, FALSE),
      views       |-> FieldInfo("int", TRUE, Num(0), TRUE) ]

PropertyUpdate ==
    [ title       |-> FieldInfo("str", TRUE, None, FALSE),
      location    |-> FieldInfo("str", TRUE, None, FALSE),
      price_usd   |-> FieldInfo("float", TRUE, None, FALSE),
      beds        |-> FieldInfo("int", TRUE, None, FALSE),
      baths       |-> FieldInfo("float", TRUE, None, FALSE),
      area_m2     |-> FieldInfo("float", TRUE, None, FALSE),
      type        |-> FieldInfo("str", TRUE, None, FALSE),
      images      |-> FieldInfo("list", TRUE, None, FALSE),
      featured    |-> FieldInfo("bool", TRUE, None, FALSE),
      description |-> FieldInfo("str", TRUE, None, FALSE) ]

Inquiry ==
    [ name        |-> FieldInfo("str", FALSE, Required, FALSE),
      email       |-> FieldInfo("email", FALSE, Required, FALSE),
      phone       |-> FieldInfo("str", TRUE, None, FALSE),
      message     |-> FieldInfo("str", FALSE, Required, FALSE),
      property_id |-> FieldInfo("str", TRUE, None, FALSE) ]

\* EmailStr: an address is written as its parts between "@" signs; it is an
\* address when there is exactly one "@", with text on both sides
EmailSyntaxOK(parts) == Len(parts) = 2 /\ parts[1] # "" /\ parts[2] # ""

\* the value of a body key has the field's declared type
TypeOK(type, j) ==
    CASE type = "str"   -> j.t = "str"
      [] type = "float" -> j.t = "num"
      [] type = "int"   -> j.t = "num" /\ j.d = 1
      [] type = "bool"  -> j.t = "bool"
      [] type = "list"  -> j.t = "list"
      [] type = "email" -> j.t = "str" /\ EmailSyntaxOK(j.v)

\* the validation of one key of a body against its field
FieldValid(info, j) ==
    IF j.t = "absent" THEN info.default.t # "absent"
    ELSE IF j.t = "null" THEN info.nullable
    ELSE /\ TypeOK(info.type, j)
         /\ info.ge0 => j.n >= 0

\* the request body is accepted by the model: the handler runs only then
ModelValid(schema, body) ==
    \A f \in DOMAIN schema : FieldValid(schema[f], body[f])

\* payload.model_dump(): every field of the model, defaults filled in
model_dump(schema, body) ==
    [f \in DOMAIN schema |->
        IF body[f].t = "absent" THEN schema[f].default ELSE body[f]]

\* a request body: the keys given, every other key of the model absent
Body(schema, given) ==
    [f \in DOMAIN schema |-> IF f \in DOMAIN given THEN given[f] ELSE Absent]

---------------------------------------------------------------------------
(* Document store (database.py, pymongo) *)

Present(doc, f) == f \in DOMAIN doc /\ doc[f].t # "absent"

Set(doc, changes) ==
    [f \in DOMAIN doc \cup DOMAIN changes |->
        IF f \in DOMAIN changes THEN changes[f] ELSE doc[f]]

\* create_document(collection, data): the document as inserted, with the
\* identifier the store generates and the creation time
create_document(data, oid, now) ==
    Set(data, [_id |-> oid, created_at |-> now, updated_at |-> Absent])

\* a filter is a set of conditions <<field, operator, value>>
Matches(doc, query) ==
    \A c \in query :
        CASE c[2] = "$eq" -> Present(doc, c[1]) /\ doc[c[1]] = c[3]
          [] c[2] = "$ne" -> ~(Present(doc, c[1]) /\ doc[c[1]] = c[3])

\* get_documents(collection, filter): the matching documents, in natural order
get_documents(coll, query) == SelectSeq(coll, LAMBDA d : Matches(d, query))

ById(oid) == {<<"_id", "$eq", oid>>}

count_documents(coll, query) == Len(get_documents(coll, query))

NoDoc == [t |-> "absent"]

find_one(coll, query) ==
    LET found == get_documents(coll, query)
    IN  IF Len(found) = 0 THEN NoDoc ELSE found[1]

\* the position of the first document that matches, 0 when none does
FirstMatch(coll, query) ==
    IF \E i \in 1..Len(coll) : Matches(coll[i], query)
    THEN CHOOSE i \in 1..Len(coll) :
            /\ Matches(coll[i], query)
            /\ \A j \in 1..(i - 1) : ~Matches(coll[j], query)
    ELSE 0

\* $inc raises a WriteError on a field that holds a non-numeric value
IncRaises(doc, inc) == \E f \in DOMAIN inc : Present(doc, f) /\ doc[f].t # "num"

Inc(doc, inc) ==
    [f \in DOMAIN doc |->
        IF f \in DOMAIN inc
        THEN (IF Present(doc, f) THEN Num(doc[f].n + inc[f]) ELSE Num(inc[f]))
        ELSE doc[f]]

\* update_one(filter, {"$inc": inc, "$set": set}): the collection after it,
\* the matched count, and whether the write raised
update_one(coll, query, inc, set) ==
    LET i == FirstMatch(coll, query)
    IN  IF i = 0 THEN [coll |-> coll, matched_count |-> 0, raised |-> FALSE]
        ELSE IF IncRaises(coll[i], inc)
        THEN [coll |-> coll, matched_count |-> 0, raised |-> TRUE]
        ELSE [coll |-> [coll EXCEPT ![i] = Set(Inc(coll[i], inc), set)],
              matched_count |-> 1, raised |-> FALSE]

delete_one(coll, query) ==
    LET i == FirstMatch(coll, query)
    IN  IF i = 0 THEN [coll |-> coll, deleted_count |-> 0]
        ELSE [coll |-> [k \in 1..(Len(coll) - 1) |->
                           IF k < i THEN coll[k] ELSE coll[k + 1]],
              deleted_count |-> 1]


\* cursor.sort(key, -1): BSON order puts null below every number
TypeRank(v) ==
    CASE v.t = "absent" -> 0
      [] v.t = "null"   -> 0
      [] v.t = "num"    -> 1
      [] OTHER          -> 2

Less(a, b) ==
    IF TypeRank(a) # TypeRank(b) THEN TypeRank(a) < TypeRank(b)
    ELSE CASE a.t = "num"  -> a.n * b.d < b.n * a.d
           [] a.t = "date" -> a.v < b.v
           [] OTHER        -> FALSE

KeyOf(doc, key) == IF key \in DOMAIN doc THEN doc[key] ELSE Absent

Remove(coll, i) ==
    [k \in 1..(Len(coll) - 1) |-> IF k < i THEN coll[k] ELSE coll[k + 1]]

\* documents of equal key keep their natural order
RECURSIVE SortDescending(_, _)
SortDescending(coll, key) ==
    IF Len(coll) = 0 THEN <<>>
    ELSE LET i == CHOOSE i \in 1..Len(coll) :
                    /\ \A j \in 1..Len(coll) :
                          ~Less(KeyOf(coll[i], key), KeyOf(coll[j], key))
                    /\ \A j \in 1..(i - 1) :
                          Less(KeyOf(coll[j], key), KeyOf(coll[i], key))
         IN  <<coll[i]>> \o SortDescending(Remove(coll, i), key)

\* cursor.limit(n)
Limit(coll, n) == SubSeq(coll, 1, IF Len(coll) < n THEN Len(coll) ELSE n)

---------------------------------------------------------------------------
(* main.py *)

IsDoc(doc) == "_id" \in DOMAIN doc

serialize_doc(doc) ==
    IF ~IsDoc(doc) THEN doc
    ELSE [f \in (DOMAIN doc \ {"_id"}) \cup {"id"} |->
            IF f = "id" THEN Str(ObjectIdStr(doc["_id"])) ELSE doc[f]]

SerializeAll(docs) == [i \in 1..Len(docs) |-> serialize_doc(docs[i])]

NoBody == <<>>

Ok(body) == [code |-> 200, detail |-> "", body |-> body]

HTTPException(status_code, detail) ==
    [code |-> status_code, detail |-> detail, body |-> NoBody]

StoreUnavailable == HTTPException(500, "Database not configured")
InvalidId == HTTPException(400, "Invalid property id")
NotFound == HTTPException(404, "Property not found")
NoFields == HTTPException(400, "No fields to update")
\* the framework's answer to a body the declared model rejects; the handler
\* is not called
ValidationError == HTTPException(422, "Unprocessable Entity")

\* the store as a handler sees it
State ==
    [db |-> dbConfigured, property |-> property, inquiry |-> inquiry,
     clock |-> clock, nextId |-> nextId]

Now(st) == Date(st.clock + 1)

Result(st, resp) == [st |-> st, response |-> resp]

\* create_document("property", data) at the instant now
InsertProperty(st, data, now) ==
    [st EXCEPT !.property = Append(@, create_document(data, Oid(st.nextId), now)),
               !.nextId = @ + 1]

InsertInquiry(st, data, now) ==
    [st EXCEPT !.inquiry = Append(@, create_document(data, Oid(st.nextId), now)),
               !.nextId = @ + 1]

\* the request has read the time
Tick(st) == [st EXCEPT !.clock = @ + 1]

demo_props ==
    << [ title       |-> Str("Penthouse con vista al mar"),
         location    |-> Str("Miraflores, Lima"),
         price_usd   |-> Num(850000),
         beds        |-> Num(3),
         baths       |-> Frac(7, 2),
         area_m2     |-> Num(240),
         type        |-> Str("Penthouse"),
         images      |-> List(<<"https://images.unsplash.com/photo-1505693416388-ac5ce068fe85?q=80&w=1800&auto=format&fit=crop",
                                "https://images.unsplash.com/photo-1502673530728-f79b4cab31b1?q=80&w=1800&auto=format&fit=crop">>),
         featured    |-> Bool(TRUE),
         description |-> Str("Exclusivo penthouse con terraza y vista panorámica al océano Pacífico."),
         views       |-> Num(0) ],
       [ title       |-> Str("Departamento moderno en San Isidro"),
         location    |-> Str("San Isidro, Lima"),
         price_usd   |-> Num(420000),
         beds        |-> Num(2),
         baths       |-> Num(2),
         area_m2     |-> Num(120),
         type        |-> Str("Departamento"),
         images      |-> List(<<"https://images.unsplash.com/photo-1502005229762-cf1b2da7c5d6?q=80&w=1800&auto=format&fit=crop">>),
         featured    |-> Bool(TRUE),
         description |-> Str("Acabados de lujo, iluminación natural y ubicación privilegiada."),
         views       |-> Num(0) ],
       [ title       |-> Str("Casa familiar con jardín"),
         location    |-> Str("La Molina, Lima"),
         price_usd   |-> Num(365000),
         beds        |-> Num(4),
         baths       |-> Num(3),
         area_m2     |-> Num(280),
         type        |-> Str("Casa"),
         images      |-> List(<<"https://images.unsplash.com/photo-1560448204-e02f11c3d0e2?q=80&w=1800&auto=format&fit=crop">>),
         featured    |-> Bool(FALSE),
         description |-> Str("Amplios ambientes, jardín y zona tranquila."),
         views       |-> Num(0) ] >>

\* for p in demo_props: create_document("property", p)
RECURSIVE SeedFrom(_, _, _)
SeedFrom(st, k, now) ==
    IF k > Len(demo_props) THEN st
    ELSE SeedFrom(InsertProperty(st, demo_props[k], now), k + 1, now)

\* a faulty variant: the seeding is not conditioned on the count
AutoSeedAlways(st, count) == Tick(SeedFrom(st, 1, Now(st)))

\* the seeding of list_properties: only when the count read is 0
AutoSeed(st, count) == IF count = 0 THEN Tick(SeedFrom(st, 1, Now(st))) ELSE st

\* a faulty variant: "if featured:" in place of the two identity tests
FeaturedQueryTruthy(featured) ==
    IF featured = Bool(TRUE) THEN {<<"featured", "$eq", Bool(TRUE)>>} ELSE {}

\* the filter list_properties builds from its featured argument
FeaturedQuery(featured) ==
    IF featured = Bool(TRUE) THEN {<<"featured", "$eq", Bool(TRUE)>>}
    ELSE IF featured = Bool(FALSE) THEN {<<"featured", "$ne", Bool(TRUE)>>}
    ELSE {}

list_properties(st, featured) ==
    IF ~st.db THEN Result(st, StoreUnavailable)
    ELSE LET count == count_documents(st.property, {})
             seeded == AutoSeed(st, count)
             docs == get_documents(seeded.property, FeaturedQuery(featured))
         IN  Result(seeded, Ok(SerializeAll(docs)))

\* the update get_property makes: views + 1 and updated_at; a write that
\* raises is swallowed and leaves the document as it was
IncrementViews(st, obj_id) ==
    LET res == update_one(st.property, ById(obj_id),
                          [views |-> 1], [updated_at |-> Now(st)])
    IN  Tick([st EXCEPT !.property = res.coll])

get_property(st, property_id) ==
    IF ~st.db THEN Result(st, StoreUnavailable)
    ELSE IF ~ObjectIdValid(property_id) THEN Result(st, InvalidId)
    ELSE LET obj_id == ObjectId(property_id)
             doc == find_one(st.property, ById(obj_id))
         IN  IF ~IsDoc(doc) THEN Result(st, NotFound)
             ELSE Result(IncrementViews(st, obj_id), Ok(serialize_doc(doc)))

create_property(st, body) ==
    IF ~ModelValid(Property, body) THEN Result(st, ValidationError)
    ELSE IF ~st.db THEN Result(st, StoreUnavailable)
    ELSE LET data == model_dump(Property, body)
             withViews == IF "views" \notin DOMAIN data
                          THEN Set(data, [views |-> Num(0)]) ELSE data
         IN  Result(Tick(InsertProperty(st, withViews, Now(st))),
                    Ok([id |-> Str(ObjectIdStr(Oid(st.nextId))), status |-> Str("ok")]))

\* Python truthiness
Truthy(v) ==
    CASE v.t = "num"  -> v.n # 0
      [] v.t = "str"  -> v.v # ""
      [] v.t = "bool" -> v.v
      [] v.t = "list" -> Len(v.v) > 0
      [] OTHER        -> FALSE

\* a faulty variant: "if v" in place of "if v is not None"
UpdateDataTruthy(payload) ==
    [f \in {k \in DOMAIN payload : Truthy(payload[k])} |-> payload[f]]

\* {k: v for k, v in payload.model_dump().items() if v is not None}
UpdateData(payload) ==
    [f \in {k \in DOMAIN payload : payload[k].t # "null"} |-> payload[f]]

\* a faulty variant: the identifier is parsed before the store is looked at
update_property_IdFirst(st, property_id, body) ==
    IF ~ModelValid(PropertyUpdate, body) THEN Result(st, ValidationError)
    ELSE IF ~ObjectIdValid(property_id) THEN Result(st, InvalidId)
    ELSE IF ~st.db THEN Result(st, StoreUnavailable)
    ELSE Result(st, NoFields)

update_property(st, property_id, body) ==
    IF ~ModelValid(PropertyUpdate, body) THEN Result(st, ValidationError)
    ELSE IF ~st.db THEN Result(st, StoreUnavailable)
    ELSE IF ~ObjectIdValid(property_id) THEN Result(st, InvalidId)
    ELSE LET obj_id == ObjectId(property_id)
             update_data == UpdateData(model_dump(PropertyUpdate, body))
         IN  IF DOMAIN update_data = {} THEN Result(st, NoFields)
             ELSE LET res == update_one(st.property, ById(obj_id), <<>>,
                                        Set(update_data, [updated_at |-> Now(st)]))
                      after == Tick([st EXCEPT !.property = res.coll])
                  IN  IF res.matched_count = 0 THEN Result(after, NotFound)
                      ELSE Result(after,
                               Ok(serialize_doc(find_one(after.property, ById(obj_id)))))

\* a faulty variant: the deleted count is not looked at
delete_property_Unchecked(st, property_id) ==
    IF ~st.db THEN Result(st, StoreUnavailable)
    ELSE IF ~ObjectIdValid(property_id) THEN Result(st, InvalidId)
    ELSE LET res == delete_one(st.property, ById(ObjectId(property_id)))
         IN  Result([st EXCEPT !.property = res.coll], Ok([status |-> Str("ok")]))

delete_property(st, property_id) ==
    IF ~st.db THEN Result(st, StoreUnavailable)
    ELSE IF ~ObjectIdValid(property_id) THEN Result(st, InvalidId)
    ELSE LET res == delete_one(st.property, ById(ObjectId(property_id)))
         IN  IF res.deleted_count = 0 THEN Result(st, NotFound)
             ELSE Result([st EXCEPT !.property = res.coll],
                         Ok([status |-> Str("ok")]))

\* a faulty variant: the cursor is not sorted
list_inquiries_Unsorted(st) ==
    IF ~st.db THEN Result(st, StoreUnavailable)
    ELSE Result(st, Ok(SerializeAll(st.inquiry)))

list_inquiries(st) ==
    IF ~st.db THEN Result(st, StoreUnavailable)
    ELSE Result(st, Ok(SerializeAll(SortDescending(st.inquiry, "created_at"))))

create_inquiry(st, body) ==
    IF ~ModelValid(Inquiry, body) THEN Result(st, ValidationError)
    ELSE IF ~st.db THEN Result(st, StoreUnavailable)
    ELSE Result(Tick(InsertInquiry(st, model_dump(Inquiry, body), Now(st))),
                Ok([id |-> Str(ObjectIdStr(Oid(st.nextId))), status |-> Str("ok")]))

TopLimit == 5
RecentLimit == 5

\* a faulty variant: the top properties are taken in natural order, unsorted
get_stats_Unsorted(st) ==
    IF ~st.db THEN Result(st, StoreUnavailable)
    ELSE Result(st, Ok(
        [ total_properties |-> count_documents(st.property, {}),
          total_inquiries  |-> count_documents(st.inquiry, {}),
          top_properties   |-> SerializeAll(Limit(st.property, TopLimit)),
          recent_inquiries |->
              SerializeAll(Limit(SortDescending(st.inquiry, "created_at"), RecentLimit)) ]))

get_stats(st) ==
    IF ~st.db THEN Result(st, StoreUnavailable)
    ELSE Result(st, Ok(
        [ total_properties |-> count_documents(st.property, {}),
          total_inquiries  |-> count_documents(st.inquiry, {}),
          top_properties   |->
              SerializeAll(Limit(SortDescending(st.property, "views"), TopLimit)),
          recent_inquiries |->
              SerializeAll(Limit(SortDescending(st.inquiry, "created_at"), RecentLimit)) ]))


---------------------------------------------------------------------------
(* The requests the model makes *)

FeaturedArgs == {None, Bool(TRUE), Bool(FALSE)}

CreateBodies ==
    { Body(Property, [title |-> Str("Loft en Barranco"),
                      location |-> Str("Barranco, Lima"),
                      price_usd |-> Num(100),
                      featured |-> Bool(TRUE)]),
      Body(Property, [title |-> Str("Terreno en Cieneguilla"),
                      location |-> Str("Cieneguilla, Lima"),
                      price_usd |-> Num(0),
                      views |-> None]),
      Body(Property, [title |-> Str("Loft en Barranco"),
                      location |-> Str("Barranco, Lima"),
                      price_usd |-> Num(-1)]) }

UpdateBodies ==
    { Body(PropertyUpdate, [beds |-> None]),
      Body(PropertyUpdate, [title |-> Str("Nuevo título")]),
      Body(PropertyUpdate, [price_usd |-> Num(-1)]),
      Body(PropertyUpdate, [featured |-> Bool(FALSE)]),
      Body(PropertyUpdate, [price_usd |-> Str("abc")]) }

InquiryBodies ==
    { Body(Inquiry, [name |-> Str("Ana"),
                     email |-> Str(<<"ana", "correo.pe">>),
                     message |-> Str("Quisiera visitar el penthouse"),
                     property_id |-> Str(HexTable[1])]),
      Body(Inquiry, [name |-> Str("Ana"),
                     email |-> Str(<<"ana.correo.pe">>),
                     message |-> Str("Quisiera visitar el penthouse")]) }

Request(op, property_id, featured, body) ==
    [op |-> op, property_id |-> property_id, featured |-> featured, body |-> body]

NoRequest == Request("", "", None, NoBody)
NoResponse == [code |-> 0, detail |-> "", body |-> NoBody]

\* history: "start" before any request, "list" after one list_properties
\* request and nothing else, "lists" after two or more of them and nothing
\* else, "mixed" once any other request has been handled
HistoryAfter(h, op) ==
    IF op # "list_properties" THEN "mixed"
    ELSE CASE h = "start" -> "list"
           [] h = "list"  -> "lists"
           [] OTHER       -> h

\* a list_properties request in flight: where it is in the handler (pc), its
\* argument, and the handler's locals
IdleWorker ==
    [pc |-> "idle", featured |-> None, count |-> 0, now |-> Date(0), k |-> 1,
     response |-> NoResponse]

IdleWorkers == [w \in 1..NumWorkers |-> IdleWorker]

---------------------------------------------------------------------------
(* The state machine: one request is handled at a time *)

Init ==
    /\ dbConfigured \in BOOLEAN
    /\ property = <<>>
    /\ inquiry = <<>>
    /\ clock = 0
    /\ nextId = 1
    /\ request = NoRequest
    /\ response = NoResponse
    /\ history = "start"
    /\ workers = IdleWorkers

\* the request req is handled with outcome out
Handle(req, out) ==
    /\ out.st.clock # clock => out.st.clock <= MaxClock
    /\ out.st.nextId # nextId => out.st.nextId <= MaxDocs + 1
    /\ property' = out.st.property
    /\ inquiry' = out.st.inquiry
    /\ clock' = out.st.clock
    /\ nextId' = out.st.nextId
    /\ request' = req
    /\ response' = out.response
    /\ history' = HistoryAfter(history, req.op)
    /\ UNCHANGED <<dbConfigured, workers>>

ListProperties ==
    \E featured \in FeaturedArgs :
        Handle(Request("list_properties", "", featured, NoBody),
               list_properties(State, featured))

GetProperty ==
    \E id \in IdStrings :
        Handle(Request("get_property", id, None, NoBody), get_property(State, id))

CreateProperty ==
    \E body \in CreateBodies :
        Handle(Request("create_property", "", None, body),
               create_property(State, body))

UpdateProperty ==
    \E id \in IdStrings, body \in UpdateBodies :
        Handle(Request("update_property", id, None, body),
               update_property(State, id, body))

DeleteProperty ==
    \E id \in IdStrings :
        Handle(Request("delete_property", id, None, NoBody),
               delete_property(State, id))

ListInquiries ==
    Handle(Request("list_inquiries", "", None, NoBody), list_inquiries(State))

CreateInquiry ==
    \E body \in InquiryBodies :
        Handle(Request("create_inquiry", "", None, body),
               create_inquiry(State, body))

GetStats ==
    Handle(Request("get_stats", "", None, NoBody), get_stats(State))

Next ==
    \/ ListProperties
    \/ GetProperty
    \/ CreateProperty
    \/ UpdateProperty
    \/ DeleteProperty
    \/ ListInquiries
    \/ CreateInquiry
    \/ GetStats

Spec == Init /\ [][Next]_vars

---------------------------------------------------------------------------
(* get_stats on stores of up to MaxStatProps properties, each created by   *)
(* create_property with a views of its own, and up to MaxStatInquiries     *)
(* inquiries                                                               *)

StatViews == {Absent, None, Num(2)}

StatBody(views) ==
    Body(Property, [title |-> Str("Loft en Barranco"),
                    location |-> Str("Barranco, Lima"),
                    price_usd |-> Num(100),
                    views |-> views])

EmptyStore ==
    [db |-> TRUE, property |-> <<>>, inquiry |-> <<>>, clock |-> 0, nextId |-> 1]

RECURSIVE AfterCreates(_, _, _)
AfterCreates(st, views, i) ==
    IF i > Len(views) THEN st
    ELSE AfterCreates(create_property(st, StatBody(views[i])).st, views, i + 1)

RECURSIVE AfterInquiries(_, _)
AfterInquiries(st, m) ==
    IF m = 0 THEN st
    ELSE AfterInquiries(
             create_inquiry(st, Body(Inquiry, [name |-> Str("Ana"),
                                               email |-> Str(<<"ana", "correo.pe">>),
                                               message |-> Str("Hola")])).st,
             m - 1)

InitStats ==
    \E n \in 0..MaxStatProps, m \in 0..MaxStatInquiries :
        \E views \in [1..n -> StatViews] :
            LET st == AfterInquiries(AfterCreates(EmptyStore, views, 1), m)
            IN  /\ dbConfigured = TRUE
                /\ property = st.property
                /\ inquiry = st.inquiry
                /\ clock = st.clock
                /\ nextId = st.nextId
                /\ request = NoRequest
                /\ response = NoResponse
                /\ history = "mixed"
                /\ workers = IdleWorkers

NextStats == GetStats

SpecStats == InitStats /\ [][NextStats]_vars

---------------------------------------------------------------------------
(* list_properties requests handled concurrently: each store call of the   *)
(* handler is one step                                                     *)

\* the request arrives; without a store it is answered at once
WorkerStart(w) ==
    /\ workers[w].pc = "idle"
    /\ \E featured \in FeaturedArgs :
          workers' = [workers EXCEPT ![w] =
              IF ~dbConfigured
              THEN [@ EXCEPT !.pc = "done", !.featured = featured,
                             !.response = StoreUnavailable]
              ELSE [@ EXCEPT !.pc = "count", !.featured = featured]]
    /\ UNCHANGED <<dbConfigured, property, inquiry, clock, nextId, request,
                   response, history>>

\* count = db["property"].count_documents({}); if count == 0: ...
WorkerCount(w) ==
    /\ workers[w].pc = "count"
    /\ LET count == count_documents(property, {})
       IN  IF count = 0
           THEN /\ workers' = [workers EXCEPT ![w] =
                       [@ EXCEPT !.pc = "seed", !.count = count, !.k = 1,
                                 !.now = Now(State)]]
                /\ clock' = clock + 1
           ELSE /\ workers' = [workers EXCEPT ![w] =
                       [@ EXCEPT !.pc = "query", !.count = count]]
                /\ clock' = clock
    /\ UNCHANGED <<dbConfigured, property, inquiry, nextId, request, response,
                   history>>

\* one turn of: for p in demo_props: create_document("property", p)
WorkerSeed(w) ==
    /\ workers[w].pc = "seed"
    /\ LET after == InsertProperty(State, demo_props[workers[w].k], workers[w].now)
       IN  /\ property' = after.property
           /\ nextId' = after.nextId
    /\ workers' = [workers EXCEPT ![w] =
           [@ EXCEPT !.k = @ + 1,
                     !.pc = IF workers[w].k = Len(demo_props) THEN "query" ELSE "seed"]]
    /\ UNCHANGED <<dbConfigured, inquiry, clock, request, response, history>>

\* docs = get_documents("property", query); return the serialized docs
WorkerQuery(w) ==
    /\ workers[w].pc = "query"
    /\ workers' = [workers EXCEPT ![w] =
           [@ EXCEPT !.pc = "done",
                     !.response = Ok(SerializeAll(
                         get_documents(property, FeaturedQuery(workers[w].featured))))]]
    /\ UNCHANGED <<dbConfigured, property, inquiry, clock, nextId, request,
                   response, history>>

NextConc ==
    \E w \in 1..NumWorkers :
        \/ WorkerStart(w)
        \/ WorkerCount(w)
        \/ WorkerSeed(w)
        \/ WorkerQuery(w)

SpecConc == Init /\ [][NextConc]_vars


---------------------------------------------------------------------------
(* Properties *)

Range(seq) == {seq[i] : i \in 1..Len(seq)}

\* the fields of a body that carry a value (neither absent nor null)
GivenFields(body) == {f \in DOMAIN body : body[f].t \notin {"absent", "null"}}

Stored(coll, oid) == \E i \in 1..Len(coll) : coll[i]["_id"] = oid

DocOf(coll, oid) == coll[CHOOSE i \in 1..Len(coll) : coll[i]["_id"] = oid]

\* a stored document without the fields the store adds
Listing(doc) == [f \in DOMAIN doc \ {"_id", "created_at", "updated_at"} |-> doc[f]]

\* a stored document as a response shows it
External(doc) ==
    [f \in (DOMAIN doc \ {"_id"}) \cup {"id"} |->
        IF f = "id" THEN Str(ObjectIdStr(doc["_id"])) ELSE doc[f]]

Reverse(seq) == [i \in 1..Len(seq) |-> seq[Len(seq) + 1 - i]]

\* C1: from an empty collection, after one or more list_properties requests
\* and nothing else, the collection holds exactly the three demo listings,
\* one copy of each, under three different identifiers.
C1_SeededOnce ==
    (dbConfigured /\ history \in {"list", "lists"}) =>
        /\ Len(property) = Len(demo_props)
        /\ \A i \in 1..Len(property) : Listing(property[i]) = demo_props[i]
        /\ Cardinality({d["_id"] : d \in Range(property)}) = Len(property)

C1_Witness ==
    /\ dbConfigured
    /\ history = "lists"
    /\ response.code = 200
    /\ Len(property) = 3

\* C2: a successful get_property raises the stored views of that property
\* by exactly 1, and no request lowers the views of a stored property.
C2_ViewsCountFetches ==
    [][ /\ (request'.op = "get_property" /\ response'.code = 200) =>
            LET oid == ObjectId(request'.property_id)
                before == DocOf(property, oid)["views"]
                after == DocOf(property', oid)["views"]
            IN  /\ before.t = "num"
                /\ after.t = "num"
                /\ after.n = before.n + 1
        /\ \A d \in Range(property) : \A e \in Range(property') :
               d["_id"] = e["_id"] => ~Less(e["views"], d["views"]) ]_vars

IsFeatured(doc) == Present(doc, "featured") /\ doc["featured"] = Bool(TRUE)

ListedIds(st, featured) ==
    {d["id"] : d \in Range(list_properties(st, featured).response.body)}

\* C3: on a non-empty collection, list_properties(featured=true) returns
\* exactly the records whose featured is true, featured=false exactly the
\* others, and no filter every record (each record once, with its identifier
\* as the string id); the two filtered results are disjoint and their union
\* is the unfiltered result.
C3_FeaturedFilter ==
    /\ (request.op = "list_properties" /\ response.code = 200) =>
          LET wanted ==
                  CASE request.featured = Bool(TRUE) ->
                           {d \in Range(property) : IsFeatured(d)}
                    [] request.featured = Bool(FALSE) ->
                           {d \in Range(property) : ~IsFeatured(d)}
                    [] OTHER -> Range(property)
          IN  /\ Len(property) > 0
              /\ Len(response.body) = Cardinality(wanted)
              /\ Range(response.body) = {External(d) : d \in wanted}
    /\ (dbConfigured /\ Len(property) > 0) =>
          /\ ListedIds(State, Bool(TRUE)) \cap ListedIds(State, Bool(FALSE)) = {}
          /\ ListedIds(State, Bool(TRUE)) \cup ListedIds(State, Bool(FALSE))
                 = ListedIds(State, None)
          /\ Cardinality(ListedIds(State, None)) = Len(property)

C3_Witness ==
    /\ request.op = "list_properties"
    /\ request.featured = Bool(FALSE)
    /\ response.code = 200
    /\ Len(response.body) = 2
    /\ Len(property) = 4

\* C4: with the store configured and a well-formed identifier, an update
\* whose body gives exactly one non-null field to an existing property
\* succeeds and overwrites that field and updated_at of that property and
\* nothing else: its other fields (views and the identifier among them), the
\* other properties and the inquiries stay as they were; an update whose
\* body has every field absent or null yields NoFields and changes nothing.
C4_UpdateFrame ==
    [][ ( /\ request'.op = "update_property"
          /\ dbConfigured
          /\ ModelValid(PropertyUpdate, request'.body)
          /\ ObjectIdValid(request'.property_id) ) =>
            LET oid == ObjectId(request'.property_id)
                body == request'.body
                given == GivenFields(body)
            IN  /\ given = {} =>
                      /\ response' = NoFields
                      /\ UNCHANGED <<property, inquiry>>
                /\ (Cardinality(given) = 1 /\ Stored(property, oid)) =>
                      /\ response'.code = 200
                      /\ inquiry' = inquiry
                      /\ Len(property') = Len(property)
                      /\ \A i \in 1..Len(property) :
                            IF property[i]["_id"] # oid
                            THEN property'[i] = property[i]
                            ELSE /\ DOMAIN property'[i] = DOMAIN property[i]
                                 /\ \A f \in DOMAIN property[i] \ (given \cup {"updated_at"}) :
                                        property'[i][f] = property[i][f]
                                 /\ \A f \in given : property'[i][f] = body[f]
                                 /\ property'[i]["updated_at"] = Date(clock')
                                 /\ clock' > clock ]_vars

C4_Witness ==
    /\ request.op = "update_property"
    /\ GivenFields(request.body) = {"featured"}
    /\ response.code = 200
    /\ Len(property) = 3
    /\ response.body["featured"] = Bool(FALSE)
    /\ response.body["views"] = Num(1)

\* C5: with the store configured (and, for update, a body the model accepts),
\* get, update and delete answer InvalidId to a malformed identifier and
\* NotFound to a well-formed identifier no stored property has (update: when
\* the body gives at least one field), and leave both collections as they
\* were; a successful delete removes exactly the record with that identifier
\* and leaves the others in place, and a get of that identifier then yields
\* NotFound.
C5_IdErrors ==
    [][ ( /\ request'.op \in {"get_property", "update_property", "delete_property"}
          /\ dbConfigured
          /\ request'.op = "update_property" =>
                 ModelValid(PropertyUpdate, request'.body) ) =>
            LET id == request'.property_id
                after == [db |-> dbConfigured, property |-> property',
                          inquiry |-> inquiry', clock |-> clock',
                          nextId |-> nextId']
            IN  /\ ~ObjectIdValid(id) =>
                      /\ response' = InvalidId
                      /\ UNCHANGED <<property, inquiry>>
                /\ ( /\ ObjectIdValid(id)
                     /\ ~Stored(property, ObjectId(id))
                     /\ request'.op = "update_property" =>
                            GivenFields(request'.body) # {} ) =>
                      /\ response' = NotFound
                      /\ UNCHANGED <<property, inquiry>>
                /\ (request'.op = "delete_property" /\ response'.code = 200) =>
                      /\ Stored(property, ObjectId(id))
                      /\ ~Stored(property', ObjectId(id))
                      /\ property' = SelectSeq(property,
                                        LAMBDA d : d["_id"] # ObjectId(id))
                      /\ Len(property') = Len(property) - 1
                      /\ inquiry' = inquiry
                      /\ get_property(after, id).response = NotFound
                /\ ( /\ request'.op = "delete_property"
                     /\ ObjectIdValid(id)
                     /\ Stored(property, ObjectId(id)) ) => response'.code = 200 ]_vars

C5_Witness ==
    /\ request.op = "delete_property"
    /\ response.code = 200
    /\ Len(property) = 2

\* C6 as claimed: without a configured store every data request is answered
\* StoreUnavailable, whatever else is wrong with it.
C6_StoreUnavailableFirst ==
    (~dbConfigured /\ request.op # "") => response = StoreUnavailable

\* the model a request's body is validated against, before the handler runs
BodyRejected(req) ==
    CASE req.op = "create_property" -> ~ModelValid(Property, req.body)
      [] req.op = "update_property" -> ~ModelValid(PropertyUpdate, req.body)
      [] req.op = "create_inquiry"  -> ~ModelValid(Inquiry, req.body)
      [] OTHER                      -> FALSE

\* C6 as amended: without a configured store, a data request whose body its
\* model accepts (or that has no body) is answered StoreUnavailable, also
\* when its identifier is malformed or its update body gives no field; a
\* request whose body the model rejects is answered ValidationError; and
\* nothing is stored.
C6_StoreUnavailableAfterValidation ==
    (~dbConfigured /\ request.op # "") =>
        /\ response = IF BodyRejected(request) THEN ValidationError
                      ELSE StoreUnavailable
        /\ property = <<>>
        /\ inquiry = <<>>

C6_Witness ==
    /\ ~dbConfigured
    /\ request.op = "update_property"
    /\ request.property_id = "not-an-object-id"
    /\ GivenFields(request.body) = {}
    /\ response = StoreUnavailable

\* C7: an inquiry, once created, is never modified or removed: the collection
\* only grows at its end, by one inquiry per successful create_inquiry; and
\* list_inquiries returns every stored inquiry once, the one created last
\* first.
C7_InquiriesNewestFirst ==
    [][ /\ Len(inquiry') >= Len(inquiry)
        /\ SubSeq(inquiry', 1, Len(inquiry)) = inquiry
        /\ (request'.op = "create_inquiry" /\ response'.code = 200) =>
              /\ Len(inquiry') = Len(inquiry) + 1
              /\ response'.body["id"] =
                     Str(ObjectIdStr(inquiry'[Len(inquiry')]["_id"]))
              /\ \A i \in 1..Len(inquiry) :
                     inquiry[i]["_id"] # inquiry'[Len(inquiry')]["_id"]
        /\ request'.op # "create_inquiry" => inquiry' = inquiry
        /\ (request'.op = "list_inquiries" /\ response'.code = 200) =>
              response'.body = SerializeAll(Reverse(inquiry')) ]_vars

C7_Witness ==
    /\ request.op = "list_inquiries"
    /\ response.code = 200
    /\ Len(response.body) = 3
    /\ response.body[1]["created_at"] = Date(3)

NonNegative(doc, f) == (Present(doc, f) /\ doc[f].t = "num") => doc[f].n >= 0

\* C9: every stored property has price_usd, beds, baths and area_m2 >= 0
\* where present: no request persists a value that violates a bound.
C9_BoundsKept ==
    \A d \in Range(property) :
        \A f \in {"price_usd", "beds", "baths", "area_m2"} : NonNegative(d, f)

\* C8: get_stats on a store of N properties and M inquiries answers
\* total_properties = N, total_inquiries = M and a top_properties of min(5, N)
\* different stored properties, in order of views non-increasing (a null
\* views below every number), no property left out having more views than
\* one that is in; and it changes nothing in the store.
C8_Stats ==
    [][ (request'.op = "get_stats" /\ dbConfigured) =>
            LET body == response'.body
                top == body["top_properties"]
                N == Len(property)
                topIds == {top[i]["id"] : i \in 1..Len(top)}
            IN  /\ response'.code = 200
                /\ UNCHANGED <<property, inquiry, clock, nextId>>
                /\ body["total_properties"] = N
                /\ body["total_inquiries"] = Len(inquiry)
                /\ Len(top) = IF N < 5 THEN N ELSE 5
                /\ Cardinality(topIds) = Len(top)
                /\ \A i \in 1..Len(top) : \E d \in Range(property) : top[i] = External(d)
                /\ \A i \in 1..(Len(top) - 1) : ~Less(top[i]["views"], top[i + 1]["views"])
                /\ \A d \in Range(property) :
                       External(d)["id"] \notin topIds =>
                           \A i \in 1..Len(top) : ~Less(top[i]["views"], d["views"]) ]_vars

C8_Witness ==
    /\ request.op = "get_stats"
    /\ response.code = 200
    /\ Len(property) = 6
    /\ Len(inquiry) = 1
    /\ Len(response.body["top_properties"]) = 5
    /\ property[1]["views"] = None
    /\ property[2]["views"] = Num(0)
    /\ property[6]["views"] = Num(2)
    /\ response.body["top_properties"][1]["id"] = Str(HexTable[6])

\* C10: however the list_properties requests interleave, the collection never
\* holds more than the three demo listings, one copy of each.
C10_SeededOnceConcurrently ==
    /\ Len(property) <= Len(demo_props)
    /\ \A k \in 1..Len(demo_props) :
           Cardinality({i \in 1..Len(property) : Listing(property[i]) = demo_props[k]}) <= 1

=============================================================================
